---- MODULE Spec2Model ----
(***************************************************************************)
(* Model of the FURY python SDK: the facade FurySDK (src/fury/fury-sdk.py), *)
(* its request dispatcher, the five domain clients                          *)
(* (src/furySDK/clients.py), the error types (src/fury/exceptions.py) and   *)
(* Protocol.validate (src/fury/models.py).                                  *)
(*                                                                          *)
(* Python values are tagged records (PyNone, PyStr, PyInt, ...), so that    *)
(* values of different Python types can be compared.  A URL or a path is a  *)
(* sequence of tokens, each token being either the separator "/" or a       *)
(* non-empty piece of text that holds no "/".  A protocol name is a         *)
(* sequence of one-character strings.                                       *)
(***************************************************************************)
EXTENDS Integers, Sequences, FiniteSets, TLC

VARIABLES
    ctor_base_url,    \* the base_url argument given to FurySDK.__init__
    ctor_api_key,     \* the api_key argument given to FurySDK.__init__
    base_url,         \* self.base_url
    api_key,          \* self.api_key
    session_headers,  \* self._session.headers (the part the SDK sets)
    calls,            \* number of public method calls made so far
    sent_count,       \* number of self._session.request(...) calls issued
    last_call,        \* the latest public call: its name and arguments
    last_sent,        \* the latest outbound request
    last_outcome,     \* what the transport did with the latest request
    result            \* what the latest call returned or raised

vars == <<ctor_base_url, ctor_api_key, base_url, api_key, session_headers, calls,
          sent_count, last_call, last_sent, last_outcome, result>>

-----------------------------------------------------------------------------
(* Bounds of the model *)

\* a run makes at most MaxCalls public calls
MaxCalls == 2
\* a base URL has at most MaxBaseLen tokens, a path at most MaxPathLen
MaxBaseLen == 3
MaxPathLen == 3
\* the protocol names tried have any of their first MaxCasePos letters, or
\* all of them, in upper case
MaxCasePos == 3

-----------------------------------------------------------------------------
(* The wire field name of each parameter of the domain clients *)

WireName ==
    [wallet_addresses |-> "walletAddresses",
     sender_public_key |-> "senderPublicKey",
     receiver |-> "receiver",
     wallet_public_key |-> "walletPublicKey",
     seller_address |-> "sellerAddress",
     buyer_address |-> "buyerAddress",
     source_addresses |-> "sourceAddresses",
     receiver_address |-> "receiverAddress",
     addresses |-> "addresses",
     token_address |-> "tokenAddress",
     sol_amount |-> "solAmount",
     percentage |-> "percentage",
     protocol |-> "protocol",
     affiliate_address |-> "affiliateAddress",
     affiliate_fee |-> "affiliateFee",
     jito_tip_lamports |-> "jitoTipLamports",
     slippage_bps |-> "slippageBps",
     address |-> "address",
     amount |-> "amount",
     mint_pubkey |-> "mintPubkey",
     config |-> "config",
     amounts |-> "amounts",
     sell_percentage |-> "sellPercentage",
     buy_percentage |-> "buyPercentage",
     transactions |-> "transactions",
     use_rpc |-> "useRpc",
     include_timestamp |-> "options",
     sender |-> "sender",
     recipients |-> "recipients"]

-----------------------------------------------------------------------------
(* Python values *)

PyNone == [t |-> "None"]

\* the variables before the first call
NoCall == [op |-> "none", args |-> PyNone]
NoRequest == [method |-> "", url |-> <<>>, headers |-> [k \in {} |-> ""], json |-> PyNone]
NoResult ==
    [kind |-> "none", exc |-> "", value |-> PyNone, status_code |-> PyNone,
     message |-> PyNone, error_data |-> PyNone]
NoOutcome == [exc |-> "", str |-> "", response |-> PyNone]

PyStr(s) == [t |-> "str", s |-> s]
\* a str whose characters the model looks at: chars is a sequence of characters
PyName(chars) == [t |-> "str", chars |-> chars]
PyInt(i) == [t |-> "int", i |-> i]
PyFloat(f) == [t |-> "float", f |-> f]
PyBool(b) == [t |-> "bool", b |-> b]
PyList(l) == [t |-> "list", l |-> l]
PyDict(d) == [t |-> "dict", d |-> d]
PyResponse(status_code, text) ==
    [t |-> "Response", status_code |-> status_code, text |-> text]

EmptyMap == [k \in {} |-> PyNone]

\* requests.Response.raise_for_status raises exactly for 400 <= status < 600
RaisesForStatus(status_code) == status_code >= 400 /\ status_code < 600

\* Python truth value; requests.Response.__bool__ is Response.ok, which is
\* False exactly when raise_for_status would raise
Truthy(v) ==
    CASE v.t = "None" -> FALSE
      [] v.t = "str" -> IF "s" \in DOMAIN v THEN v.s # "" ELSE v.chars # <<>>
      [] v.t = "int" -> v.i # 0
      [] v.t = "float" -> v.f # "0.0"
      [] v.t = "bool" -> v.b
      [] v.t = "list" -> v.l # <<>>
      [] v.t = "dict" -> DOMAIN v.d # {}
      [] v.t = "Response" -> ~RaisesForStatus(v.status_code)

\* Python `a or b`
PyOr(a, b) == IF Truthy(a) THEN a ELSE b

\* dict.get(key, default)
DictGet(v, key, default) == IF key \in DOMAIN v.d THEN v.d[key] ELSE default

\* data[key] = value
DictSet(d, key, value) == [k \in DOMAIN d \cup {key} |-> IF k = key THEN value ELSE d[k]]

-----------------------------------------------------------------------------
(* URLs and paths *)

Slash == "/"

RECURSIVE rstrip(_)
\* str.rstrip('/'): drop every trailing "/"
rstrip(s) ==
    IF s # <<>> /\ s[Len(s)] = Slash THEN rstrip(SubSeq(s, 1, Len(s) - 1)) ELSE s

-----------------------------------------------------------------------------
(* Errors: src/fury/exceptions.py *)

Return(value) == [NoResult EXCEPT !.kind = "return", !.value = value]

\* an exception that is neither FurySDKError nor a subclass of it
RaiseOther(exc) == [NoResult EXCEPT !.kind = "raise", !.exc = exc]

\* FuryAPIError.__init__ as it would be without the `or {}`: the payload is
\* kept as given, None included
FuryAPIError_keeps_error_data(status_code, message, error_data) ==
    [NoResult EXCEPT !.kind = "raise", !.exc = "FuryAPIError",
                     !.status_code = status_code, !.message = message,
                     !.error_data = error_data]

\* FuryAPIError.__init__: error_data or {}
FuryAPIError(status_code, message, error_data) ==
    [NoResult EXCEPT !.kind = "raise", !.exc = "FuryAPIError",
                     !.status_code = status_code, !.message = message,
                     !.error_data = PyOr(error_data, PyDict(EmptyMap))]

\* the classes of exceptions.py that derive from FurySDKError, itself included
SDKErrorKinds == {"FurySDKError", "FuryAPIError", "ValidationError"}

-----------------------------------------------------------------------------
(* The transport: what self._session.request and the server can do *)

BodyInsufficient == "{\"message\": \"insufficient balance\"}"
BodyNoMessage == "{\"error\": \"not found\"}"
BodyEmptyObject == "{}"
BodyOk == "{\"status\": \"ok\"}"
BodyList == "[]"
BodyNull == "null"
BodyString == "\"down\""
BodyPlain == "Internal Server Error"
BodyEmpty == ""

\* Response.json(): the decoded value of the body texts of the model, and
\* ok = FALSE for a text that is not JSON
json_loads(text) ==
    CASE text = BodyInsufficient ->
           [value |-> PyDict([message |-> PyStr("insufficient balance")]), ok |-> TRUE]
      [] text = BodyNoMessage ->
           [value |-> PyDict([error |-> PyStr("not found")]), ok |-> TRUE]
      [] text = BodyEmptyObject -> [value |-> PyDict(EmptyMap), ok |-> TRUE]
      [] text = BodyOk -> [value |-> PyDict([status |-> PyStr("ok")]), ok |-> TRUE]
      [] text = BodyList -> [value |-> PyList(<<>>), ok |-> TRUE]
      [] text = BodyNull -> [value |-> PyNone, ok |-> TRUE]
      [] text = BodyString -> [value |-> PyStr("down"), ok |-> TRUE]
      [] OTHER -> [value |-> PyNone, ok |-> FALSE]

\* an HTTP response that reaches the caller
HttpResponse(status_code, text) ==
    [exc |-> "none", str |-> "", response |-> PyResponse(status_code, text)]

\* a requests exception raised by the transport itself; response is PyNone
\* when no response was received
TransportError(exc, str, response) == [exc |-> exc, str |-> str, response |-> response]

\* str(HTTPError) as raise_for_status builds it
HTTPErrorText(status_code) ==
    IF status_code < 500 THEN ToString(status_code) \o " Client Error"
                         ELSE ToString(status_code) \o " Server Error"

JSONErrorText == "Expecting value: line 1 column 1 (char 0)"

\* Response.json() on a body that is not JSON raises
\* requests.exceptions.JSONDecodeError, a RequestException, since requests
\* 2.27 and a plain ValueError before; the repository pins no version
JsonErrorKinds == {"RequestException", "ValueError"}

-----------------------------------------------------------------------------
(* The dispatcher: FurySDK.request, src/fury/fury-sdk.py *)

\* request_except as it would be if the decoded body were dropped: the error
\* is always built from the transport error alone
request_except_without_body(e) ==
    FuryAPIError(IF e.response # PyNone THEN PyInt(e.response.status_code) ELSE PyNone,
                 PyStr(e.str), PyNone)

\* the except clause of request(): e is the RequestException caught
request_except(e) ==
    LET \* status_code=getattr(e, 'response', None) and e.response.status_code
        fallback ==
            FuryAPIError(IF Truthy(e.response) THEN PyInt(e.response.status_code)
                                               ELSE e.response,
                         PyStr(e.str), PyNone)
    IN IF e.response # PyNone
       THEN LET error_data == json_loads(e.response.text)
            IN IF ~error_data.ok
               THEN fallback    \* except ValueError: pass
               ELSE IF error_data.value.t # "dict"
                    THEN RaiseOther("AttributeError")    \* no .get on a non-dict
                    ELSE FuryAPIError(PyInt(e.response.status_code),
                                      DictGet(error_data.value, "message", PyStr(e.str)),
                                      error_data.value)
       ELSE fallback

\* the try block of request() and its handler: o is what the transport does,
\* jk the kind of error Response.json() raises in this build
request_result(o, jk) ==
    IF o.exc # "none"
    THEN request_except(o)    \* self._session.request raised
    ELSE IF RaisesForStatus(o.response.status_code)
         THEN request_except([exc |-> "HTTPError",
                              str |-> HTTPErrorText(o.response.status_code),
                              response |-> o.response])
         ELSE LET body == json_loads(o.response.text)
              IN IF body.ok
                 THEN Return(body.value)
                 ELSE IF jk = "RequestException"
                      THEN request_except([exc |-> "JSONDecodeError",
                                           str |-> JSONErrorText,
                                           response |-> PyNone])
                      ELSE RaiseOther("ValueError")

\* url = f"{self.base_url}{endpoint}"
request_url(base, endpoint) == base \o endpoint

\* request as it would be if a failed request were sent a second time
request_with_retry(method, endpoint, json, o, jk) ==
    /\ sent_count' = sent_count + (IF request_result(o, jk).kind = "raise" THEN 2 ELSE 1)
    /\ last_sent' = [method |-> method,
                     url |-> request_url(base_url, endpoint),
                     headers |-> session_headers,
                     json |-> json]
    /\ last_outcome' = o
    /\ result' = request_result(o, jk)
    /\ UNCHANGED <<ctor_base_url, ctor_api_key, base_url, api_key, session_headers>>

\* FurySDK.request(method, endpoint, json=json)
request(method, endpoint, json, o, jk) ==
    /\ sent_count' = sent_count + 1
    /\ last_sent' = [method |-> method,
                     url |-> request_url(base_url, endpoint),
                     headers |-> session_headers,
                     json |-> json]
    /\ last_outcome' = o
    /\ result' = request_result(o, jk)
    /\ UNCHANGED <<ctor_base_url, ctor_api_key, base_url, api_key, session_headers>>

\* a public method is entered: the model records the call and its arguments
Call(op, args) ==
    /\ calls < MaxCalls
    /\ calls' = calls + 1
    /\ last_call' = [op |-> op, args |-> args]

-----------------------------------------------------------------------------
(* Construction: FurySDK.__init__ *)

\* init_headers as it would be if the key were sent without its scheme
init_headers_without_scheme(key) ==
    IF Truthy(key) THEN [Authorization |-> key.s] ELSE [k \in {} |-> ""]

\* self._session.headers after __init__
init_headers(key) ==
    IF Truthy(key) THEN [Authorization |-> "Bearer " \o key.s] ELSE [k \in {} |-> ""]

\* init_base_url as it would be without the rstrip
init_base_url_as_given(url) == url

\* self.base_url after __init__
init_base_url(url) == rstrip(url)

FurySDK_init(url, key) ==
    /\ ctor_base_url = url
    /\ ctor_api_key = key
    /\ base_url = init_base_url(url)
    /\ api_key = key
    /\ session_headers = init_headers(key)
    /\ calls = 0
    /\ sent_count = 0
    /\ last_call = NoCall
    /\ last_sent = NoRequest
    /\ last_outcome = NoOutcome
    /\ result = NoResult

-----------------------------------------------------------------------------
(* The domain clients: src/furySDK/clients.py *)

Path(a, b, c) == <<Slash, a, Slash, b, Slash, c>>

\* trade_data as it would be if each optional were tested with `is not None`
trade_data_keeping_falsy(amount_key, amount, a) ==
    LET d0 == DictSet([walletAddresses |-> a.wallet_addresses,
                       tokenAddress |-> a.token_address,
                       protocol |-> a.protocol], amount_key, amount)
        d1 == IF a.affiliate_address # PyNone
              THEN DictSet(d0, "affiliateAddress", a.affiliate_address) ELSE d0
        d2 == IF a.affiliate_fee # PyNone
              THEN DictSet(d1, "affiliateFee", a.affiliate_fee) ELSE d1
        d3 == IF a.jito_tip_lamports # PyNone
              THEN DictSet(d2, "jitoTipLamports", a.jito_tip_lamports) ELSE d2
        d4 == IF a.slippage_bps # PyNone
              THEN DictSet(d3, "slippageBps", a.slippage_bps) ELSE d3
    IN PyDict(d4)

\* the body buy() and sell() build; amount_key is "solAmount" or "percentage"
trade_data(amount_key, amount, a) ==
    LET d0 == DictSet([walletAddresses |-> a.wallet_addresses,
                       tokenAddress |-> a.token_address,
                       protocol |-> a.protocol], amount_key, amount)
        d1 == IF Truthy(a.affiliate_address)
              THEN DictSet(d0, "affiliateAddress", a.affiliate_address) ELSE d0
        d2 == IF Truthy(a.affiliate_fee)
              THEN DictSet(d1, "affiliateFee", a.affiliate_fee) ELSE d1
        d3 == IF Truthy(a.jito_tip_lamports)
              THEN DictSet(d2, "jitoTipLamports", a.jito_tip_lamports) ELSE d2
        d4 == IF Truthy(a.slippage_bps)
              THEN DictSet(d3, "slippageBps", a.slippage_bps) ELSE d3
    IN PyDict(d4)

\* TokensClient.buy
buy(a, o, jk) ==
    /\ Call("buy", a)
    /\ request("POST", Path("api", "tokens", "buy"), trade_data("solAmount", a.sol_amount, a), o, jk)

\* TokensClient.sell
sell(a, o, jk) ==
    /\ Call("sell", a)
    /\ request("POST", Path("api", "tokens", "sell"), trade_data("percentage", a.percentage, a), o, jk)

\* TokensClient.transfer
transfer(a, o, jk) ==
    /\ Call("transfer", a)
    /\ request("POST", Path("api", "tokens", "transfer"),
               PyDict([senderPublicKey |-> a.sender_public_key,
                       receiver |-> a.receiver,
                       tokenAddress |-> a.token_address,
                       amount |-> a.amount]), o, jk)

\* TokensClient.create
create(a, o, jk) ==
    /\ Call("create", a)
    /\ request("POST", Path("api", "tokens", "create"),
               PyDict([walletAddresses |-> a.wallet_addresses,
                       mintPubkey |-> a.mint_pubkey,
                       config |-> a.config,
                       amounts |-> a.amounts]), o, jk)

\* TokensClient.burn
burn(a, o, jk) ==
    /\ Call("burn", a)
    /\ request("POST", Path("api", "tokens", "burn"),
               PyDict([walletPublicKey |-> a.wallet_public_key,
                       tokenAddress |-> a.token_address,
                       amount |-> a.amount]), o, jk)

\* TokensClient.cleaner
cleaner(a, o, jk) ==
    /\ Call("cleaner", a)
    /\ request("POST", Path("api", "tokens", "cleaner"),
               PyDict([sellerAddress |-> a.seller_address,
                       buyerAddress |-> a.buyer_address,
                       tokenAddress |-> a.token_address,
                       sellPercentage |-> a.sell_percentage,
                       buyPercentage |-> a.buy_percentage]), o, jk)

\* TransactionsClient.send
send(a, o, jk) ==
    /\ Call("send", a)
    /\ request("POST", Path("api", "transactions", "send"),
               PyDict([transactions |-> a.transactions, useRpc |-> a.use_rpc]), o, jk)

\* the body calculate_pnl() builds
pnl_data(a) ==
    LET d0 == [addresses |-> a.addresses]
        d1 == IF Truthy(a.token_address)
              THEN DictSet(d0, "tokenAddress", a.token_address) ELSE d0
        d2 == IF Truthy(a.include_timestamp)
              THEN DictSet(d1, "options", PyDict([includeTimestamp |-> PyBool(TRUE)]))
              ELSE d1
    IN PyDict(d2)

\* AnalyticsClient.calculate_pnl
calculate_pnl(a, o, jk) ==
    /\ Call("calculate_pnl", a)
    /\ request("POST", Path("api", "analytics", "pnl"), pnl_data(a), o, jk)

\* UtilitiesClient.generate_mint
generate_mint(o, jk) ==
    /\ Call("generate_mint", PyNone)
    /\ request("GET", Path("api", "utilities", "generate-mint"), PyNone, o, jk)

\* distribute as it would be with the singular key "recipient"
distribute_with_wrong_key(a, o, jk) ==
    /\ Call("distribute", a)
    /\ request("POST", Path("api", "wallets", "distribute"),
               PyDict([sender |-> a.sender, recipient |-> a.recipients]), o, jk)

\* WalletsClient.distribute
distribute(a, o, jk) ==
    /\ Call("distribute", a)
    /\ request("POST", Path("api", "wallets", "distribute"),
               PyDict([sender |-> a.sender, recipients |-> a.recipients]), o, jk)

\* the body consolidate() builds
consolidate_data(a) ==
    LET d0 == [sourceAddresses |-> a.source_addresses,
               receiverAddress |-> a.receiver_address,
               percentage |-> a.percentage]
        d1 == IF Truthy(a.token_address)
              THEN DictSet(d0, "tokenAddress", a.token_address) ELSE d0
    IN PyDict(d1)

\* WalletsClient.consolidate
consolidate(a, o, jk) ==
    /\ Call("consolidate", a)
    /\ request("POST", Path("api", "wallets", "consolidate"), consolidate_data(a), o, jk)

\* FurySDK.health_check
health_check(o, jk) ==
    /\ Call("health_check", PyNone)
    /\ request("GET", <<Slash, "health">>, PyNone, o, jk)

\* FurySDK.request called by the user of the facade, without a body
sdk_request(method, endpoint, o, jk) ==
    /\ Call("request", [method |-> method, endpoint |-> endpoint])
    /\ request(method, endpoint, PyNone, o, jk)

-----------------------------------------------------------------------------
(* Protocol: src/fury/models.py *)

Lowers == <<"a", "b", "c", "d", "e", "f", "g", "h", "i", "j", "k", "l", "m",
            "n", "o", "p", "q", "r", "s", "t", "u", "v", "w", "x", "y", "z">>
Uppers == <<"A", "B", "C", "D", "E", "F", "G", "H", "I", "J", "K", "L", "M",
            "N", "O", "P", "Q", "R", "S", "T", "U", "V", "W", "X", "Y", "Z">>

lower_char(c) ==
    IF \E i \in DOMAIN Uppers : Uppers[i] = c
    THEN Lowers[CHOOSE i \in DOMAIN Uppers : Uppers[i] = c] ELSE c

upper_char(c) ==
    IF \E i \in DOMAIN Lowers : Lowers[i] = c
    THEN Uppers[CHOOSE i \in DOMAIN Lowers : Lowers[i] = c] ELSE c

\* str.lower()
lower(name) == [i \in DOMAIN name |-> lower_char(name[i])]

RAYDIUM == <<"r", "a", "y", "d", "i", "u", "m">>
JUPITER == <<"j", "u", "p", "i", "t", "e", "r">>
PUMPFUN == <<"p", "u", "m", "p", "f", "u", "n">>
MOONSHOT == <<"m", "o", "o", "n", "s", "h", "o", "t">>
PUMPSWAP == <<"p", "u", "m", "p", "s", "w", "a", "p">>
AUTO == <<"a", "u", "t", "o">>

\* Protocol.values()
values == {RAYDIUM, JUPITER, PUMPFUN, MOONSHOT, PUMPSWAP, AUTO}

\* validate as it would be if it returned the name as given
validate_keeps_case(protocol) ==
    IF lower(protocol) \notin values
    THEN RaiseOther("ValueError")
    ELSE Return(PyName(protocol))

\* Protocol.validate(protocol)
validate(protocol) ==
    IF lower(protocol) \notin values
    THEN RaiseOther("ValueError")
    ELSE Return(PyName(lower(protocol)))

-----------------------------------------------------------------------------
(* Inputs *)

BaseUrlArgs ==
    { <<"https:", Slash, Slash, "api.fury.bot">>,
      <<"https:", Slash, Slash, "api.fury.bot", Slash>> }

ApiKeyArgs == {PyNone, PyStr(""), PyStr("secret")}

Outcomes ==
    { HttpResponse(200, BodyOk),
      HttpResponse(200, BodyPlain),
      HttpResponse(300, BodyNoMessage),
      HttpResponse(400, BodyInsufficient),
      HttpResponse(404, BodyNoMessage),
      HttpResponse(422, BodyEmptyObject),
      HttpResponse(500, BodyPlain),
      HttpResponse(503, BodyEmpty),
      HttpResponse(400, BodyList),
      HttpResponse(500, BodyNull),
      HttpResponse(502, BodyString),
      TransportError("ConnectionError", "Connection refused", PyNone),
      TransportError("ReadTimeout", "Read timed out.", PyNone),
      TransportError("TooManyRedirects", "Exceeded 30 redirects.",
                     PyResponse(302, BodyEmpty)) }

\* the outcomes tried where the claim is about the request, not the response
FewOutcomes == {HttpResponse(200, BodyOk), HttpResponse(400, BodyInsufficient)}

INVALID == <<"i", "n", "v", "a", "l", "i", "d">>

ProtocolArgs ==
    {PyName(AUTO), PyName(<<"J", "u", "p", "i", "t", "e", "r">>), PyName(INVALID)}

NoOptionals ==
    [affiliate_address |-> PyNone, affiliate_fee |-> PyNone,
     jito_tip_lamports |-> PyNone, slippage_bps |-> PyNone]

AllOptionals ==
    [affiliate_address |-> PyStr("Aff"), affiliate_fee |-> PyStr("2"),
     jito_tip_lamports |-> PyInt(5000000), slippage_bps |-> PyInt(9990)]

TradeOptionals ==
    [affiliate_address : {PyNone, PyStr(""), PyStr("Aff")},
     affiliate_fee : {PyNone, PyStr(""), PyStr("2")},
     jito_tip_lamports : {PyNone, PyInt(0), PyInt(5000000)},
     slippage_bps : {PyNone, PyInt(0), PyInt(9990)}]

Wallets == PyList(<<PyStr("W1"), PyStr("W2")>>)

BuyArgs(protocol, opt) ==
    [wallet_addresses |-> Wallets, token_address |-> PyStr("Tok"),
     sol_amount |-> PyFloat("1.5"), protocol |-> protocol,
     affiliate_address |-> opt.affiliate_address, affiliate_fee |-> opt.affiliate_fee,
     jito_tip_lamports |-> opt.jito_tip_lamports, slippage_bps |-> opt.slippage_bps]

SellArgs(protocol, opt) ==
    [wallet_addresses |-> Wallets, token_address |-> PyStr("Tok"),
     percentage |-> PyInt(100), protocol |-> protocol,
     affiliate_address |-> opt.affiliate_address, affiliate_fee |-> opt.affiliate_fee,
     jito_tip_lamports |-> opt.jito_tip_lamports, slippage_bps |-> opt.slippage_bps]

PnlArgs(token_address, include_timestamp) ==
    [addresses |-> PyStr("W1,W2"), token_address |-> token_address,
     include_timestamp |-> include_timestamp]

ConsolidateArgs(token_address) ==
    [source_addresses |-> Wallets, receiver_address |-> PyStr("W3"),
     token_address |-> token_address, percentage |-> PyInt(100)]

Recipient(address, amount) ==
    PyDict([address |-> PyStr(address), amount |-> PyStr(amount)])

DistributeArgs ==
    { [sender |-> PyStr("A"), recipients |-> PyList(<<Recipient("B", "10")>>)],
      [sender |-> PyStr("W1"),
       recipients |-> PyList(<<Recipient("W2", "1"), Recipient("W3", "2")>>)] }

Methods == {"GET", "POST", "PUT", "DELETE"}

-----------------------------------------------------------------------------
(* The facade and its clients in use *)

Init == \E url \in BaseUrlArgs, key \in ApiKeyArgs : FurySDK_init(url, key)

TokensBuy ==
    \E p \in ProtocolArgs, opt \in {NoOptionals, AllOptionals},
       o \in Outcomes, jk \in JsonErrorKinds :
        buy(BuyArgs(p, opt), o, jk)

TokensSell ==
    \E p \in ProtocolArgs, opt \in {NoOptionals, AllOptionals},
       o \in Outcomes, jk \in JsonErrorKinds :
        sell(SellArgs(p, opt), o, jk)

TokensTransfer ==
    \E o \in Outcomes, jk \in JsonErrorKinds :
        transfer([sender_public_key |-> PyStr("W1"), receiver |-> PyStr("W2"),
                  token_address |-> PyStr("Tok"), amount |-> PyStr("10")], o, jk)

TokensCreate ==
    \E o \in Outcomes, jk \in JsonErrorKinds :
        create([wallet_addresses |-> Wallets, mint_pubkey |-> PyStr("Mint"),
                config |-> PyDict([tokenCreation |-> PyDict(EmptyMap)]),
                amounts |-> PyList(<<PyFloat("0.1"), PyFloat("0.2")>>)], o, jk)

TokensBurn ==
    \E o \in Outcomes, jk \in JsonErrorKinds :
        burn([wallet_public_key |-> PyStr("W1"), token_address |-> PyStr("Tok"),
              amount |-> PyStr("10")], o, jk)

TokensCleaner ==
    \E o \in Outcomes, jk \in JsonErrorKinds :
        cleaner([seller_address |-> PyStr("W1"), buyer_address |-> PyStr("W2"),
                 token_address |-> PyStr("Tok"), sell_percentage |-> PyFloat("50.5"),
                 buy_percentage |-> PyFloat("25.0")], o, jk)

TransactionsSend ==
    \E use_rpc \in BOOLEAN, o \in Outcomes, jk \in JsonErrorKinds :
        send([transactions |-> PyList(<<PyDict([transaction |-> PyStr("Tx1")])>>),
              use_rpc |-> PyBool(use_rpc)], o, jk)

AnalyticsCalculatePnl ==
    \E ta \in {PyNone, PyStr("Tok")}, ts \in BOOLEAN,
       o \in Outcomes, jk \in JsonErrorKinds :
        calculate_pnl(PnlArgs(ta, PyBool(ts)), o, jk)

UtilitiesGenerateMint ==
    \E o \in Outcomes, jk \in JsonErrorKinds : generate_mint(o, jk)

WalletsDistribute ==
    \E a \in DistributeArgs, o \in Outcomes, jk \in JsonErrorKinds :
        distribute(a, o, jk)

WalletsConsolidate ==
    \E ta \in {PyNone, PyStr("Tok")}, o \in Outcomes, jk \in JsonErrorKinds :
        consolidate(ConsolidateArgs(ta), o, jk)

HealthCheck ==
    \E o \in Outcomes, jk \in JsonErrorKinds : health_check(o, jk)

SdkRequest ==
    \E method \in Methods, endpoint \in {<<Slash, "health">>, <<"health">>},
       o \in Outcomes, jk \in JsonErrorKinds :
        sdk_request(method, endpoint, o, jk)

Next ==
    \/ TokensBuy
    \/ TokensSell
    \/ TokensTransfer
    \/ TokensCreate
    \/ TokensBurn
    \/ TokensCleaner
    \/ TransactionsSend
    \/ AnalyticsCalculatePnl
    \/ UtilitiesGenerateMint
    \/ WalletsDistribute
    \/ WalletsConsolidate
    \/ HealthCheck
    \/ SdkRequest

Spec == Init /\ [][Next]_vars

-----------------------------------------------------------------------------
(* The optional parameters of buy, sell, calculate_pnl and consolidate, over *)
(* every combination of unset, falsy and truthy values                       *)

OptionalStrings == {PyNone, PyStr(""), PyStr("Tok")}

BuyOptionals ==
    \E opt \in TradeOptionals, o \in FewOutcomes, jk \in JsonErrorKinds :
        buy(BuyArgs(PyName(AUTO), opt), o, jk)

SellOptionals ==
    \E opt \in TradeOptionals, o \in FewOutcomes, jk \in JsonErrorKinds :
        sell(SellArgs(PyName(AUTO), opt), o, jk)

PnlOptionals ==
    \E ta \in OptionalStrings, ts \in BOOLEAN, o \in FewOutcomes, jk \in JsonErrorKinds :
        calculate_pnl(PnlArgs(ta, PyBool(ts)), o, jk)

ConsolidateOptionals ==
    \E ta \in OptionalStrings, o \in FewOutcomes, jk \in JsonErrorKinds :
        consolidate(ConsolidateArgs(ta), o, jk)

NextOptionals ==
    \/ BuyOptionals
    \/ SellOptionals
    \/ PnlOptionals
    \/ ConsolidateOptionals

SpecOptionals == Init /\ [][NextOptionals]_vars

-----------------------------------------------------------------------------
(* request() over every base URL and every path of the bounded sets *)

RECURSIVE TokenSeqs(_, _)
\* the sequences of at most n tokens of the set tokens
TokenSeqs(tokens, n) ==
    IF n = 0 THEN {<<>>}
    ELSE LET shorter == TokenSeqs(tokens, n - 1)
         IN shorter \cup {Append(s, t) : s \in shorter, t \in tokens}

UrlBases == TokenSeqs({"host", Slash}, MaxBaseLen)
UrlPaths == TokenSeqs({"path", Slash}, MaxPathLen) \ {<<>>}

InitUrl == \E url \in UrlBases : FurySDK_init(url, PyNone)

UrlRequest ==
    \E method \in Methods, endpoint \in UrlPaths, o \in FewOutcomes, jk \in JsonErrorKinds :
        sdk_request(method, endpoint, o, jk)

NextUrl == UrlRequest

SpecUrl == InitUrl /\ [][NextUrl]_vars

-----------------------------------------------------------------------------
(* Protocol.validate over the bounded set of names *)

BaseNames ==
    values \cup {INVALID, <<>>, <<"j", "u", "p">>, <<"a", "u", "t", "o", "x">>,
                 <<"a", "u", "t", "o", " ">>, <<"s", "o", "l", "a", "n", "a">>}

CaseMasks == SUBSET (1..MaxCasePos) \cup {1..8}

WithCase(name, mask) ==
    [i \in DOMAIN name |-> IF i \in mask THEN upper_char(name[i]) ELSE name[i]]

NameArgs == {WithCase(name, mask) : name \in BaseNames, mask \in CaseMasks}

Validate ==
    \E name \in NameArgs :
        /\ Call("validate", PyName(name))
        /\ result' = validate(name)
        /\ UNCHANGED <<ctor_base_url, ctor_api_key, base_url, api_key,
                       session_headers, sent_count, last_sent, last_outcome>>

NextValidate == Validate

SpecValidate == Init /\ [][NextValidate]_vars

-----------------------------------------------------------------------------
(* Properties *)

\* the latest call went through FurySDK.request
Requested == last_call.op \notin {"none", "validate"}

\* the latest request was answered by an HTTP response
Answered == Requested /\ last_outcome.exc = "none"

Status == last_outcome.response.status_code
Decoded == json_loads(last_outcome.response.text)

\* the six accepted protocol names, in any mix of cases
Accepts(name) ==
    \E v \in {RAYDIUM, JUPITER, PUMPFUN, MOONSHOT, PUMPSWAP, AUTO} :
        /\ Len(name) = Len(v)
        /\ \A i \in DOMAIN v : name[i] \in {v[i], upper_char(v[i])}

\* C1: a buy or sell call whose protocol is none of the six accepted names
\* raises a local validation error and leaves the number of requests sent
\* unchanged.
C1_InvalidProtocolSendsNothing ==
    [][(/\ calls' = calls + 1
        /\ last_call'.op \in {"buy", "sell"}
        /\ ~Accepts(last_call'.args.protocol.chars))
       => (/\ sent_count' = sent_count
           /\ result'.kind = "raise"
           /\ result'.exc \in {"ValidationError", "ValueError", "FurySDKError"})]_vars

\* C2 as stated: every response with a status outside 200..299 and a JSON
\* object as its body raises a FuryAPIError with that status, the body's
\* message (else the text of the transport error) and the body as payload.
C2_Non2xxObjectRaisesAPIError ==
    (Answered /\ Status \notin 200..299 /\ Decoded.ok /\ Decoded.value.t = "dict")
    => (/\ result.kind = "raise"
        /\ result.exc = "FuryAPIError"
        /\ result.status_code = PyInt(Status)
        /\ result.message = IF "message" \in DOMAIN Decoded.value.d
                            THEN Decoded.value.d["message"]
                            ELSE PyStr(HTTPErrorText(Status))
        /\ result.error_data = Decoded.value)

\* C2 amended: every response with a status in 400..599 and a JSON object as
\* its body raises a FuryAPIError with that status, the body's message (else
\* the text of the transport error) and the body as payload.
C2_ErrorStatusObjectRaisesAPIError ==
    (Answered /\ Status \in 400..599 /\ Decoded.ok /\ Decoded.value.t = "dict")
    => (/\ result.kind = "raise"
        /\ result.exc = "FuryAPIError"
        /\ result.status_code = PyInt(Status)
        /\ result.message = IF "message" \in DOMAIN Decoded.value.d
                            THEN Decoded.value.d["message"]
                            ELSE PyStr(HTTPErrorText(Status))
        /\ result.error_data = Decoded.value)

C2_Witness ==
    /\ Answered
    /\ last_outcome.response = PyResponse(400, BodyInsufficient)
    /\ result.exc = "FuryAPIError"
    /\ result.status_code = PyInt(400)
    /\ result.message = PyStr("insufficient balance")
    /\ result.error_data = PyDict([message |-> PyStr("insufficient balance")])

\* C3: every response with a status outside 200..299 and a body that is not
\* JSON raises a FuryAPIError whose status code is the numeric status, whose
\* message is the raw response text and whose payload is empty.
C3_Non2xxTextRaisesAPIError ==
    (Answered /\ Status \notin 200..299 /\ ~Decoded.ok)
    => (/\ result.kind = "raise"
        /\ result.exc = "FuryAPIError"
        /\ result.status_code = PyInt(Status)
        /\ result.message = PyStr(last_outcome.response.text)
        /\ result.error_data = PyDict(EmptyMap))

\* C4: after any sequence of n calls of the domain clients the number of
\* requests sent is n, whether the calls succeeded or failed.
C4_OneRequestPerCall == sent_count = calls

C4_Witness ==
    /\ calls = MaxCalls
    /\ sent_count = MaxCalls
    /\ last_call.op = "consolidate"
    /\ result.kind = "raise"

\* the keys every body of the method holds, and its optional parameters
RequiredParams(op) ==
    CASE op = "buy" -> {"wallet_addresses", "token_address", "sol_amount", "protocol"}
      [] op = "sell" -> {"wallet_addresses", "token_address", "percentage", "protocol"}
      [] op = "transfer" -> {"sender_public_key", "receiver", "token_address", "amount"}
      [] op = "create" -> {"wallet_addresses", "mint_pubkey", "config", "amounts"}
      [] op = "burn" -> {"wallet_public_key", "token_address", "amount"}
      [] op = "cleaner" -> {"seller_address", "buyer_address", "token_address",
                            "sell_percentage", "buy_percentage"}
      [] op = "send" -> {"transactions", "use_rpc"}
      [] op = "calculate_pnl" -> {"addresses"}
      [] op = "distribute" -> {"sender", "recipients"}
      [] op = "consolidate" -> {"source_addresses", "receiver_address", "percentage"}
      [] OTHER -> {}

OptionalParams(op) ==
    CASE op \in {"buy", "sell"} ->
           {"affiliate_address", "affiliate_fee", "jito_tip_lamports", "slippage_bps"}
      [] op = "calculate_pnl" -> {"token_address", "include_timestamp"}
      [] op = "consolidate" -> {"token_address"}
      [] OTHER -> {}

\* the parameter was given a value: not None, and for include_timestamp not
\* its default False
Supplied(v) == v # PyNone /\ v # PyBool(FALSE)

BodyKeys == DOMAIN last_sent.json.d

\* C5: the body of buy, sell, calculate_pnl and consolidate holds no key of
\* an optional parameter left unset, and holds exactly the required keys
\* plus the keys of the optional parameters that were supplied.
C5_BodyHoldsSuppliedOptionals ==
    last_call.op \in {"buy", "sell", "calculate_pnl", "consolidate"}
    => LET op == last_call.op
           args == last_call.args
       IN /\ \A p \in OptionalParams(op) :
                 ~Supplied(args[p]) => WireName[p] \notin BodyKeys
          /\ BodyKeys = {WireName[p] : p \in RequiredParams(op)}
                        \cup {WireName[p] : p \in {q \in OptionalParams(op) :
                                                      Supplied(args[q])}}

\* url is base and path joined by exactly one separator: base without its
\* trailing separators, one separator, path without its leading separators
JoinedOnce(base, path, url) ==
    \E k \in 0..Len(base), j \in 0..Len(path) :
        /\ k = 0 \/ base[k] # Slash
        /\ \A i \in (k + 1)..Len(base) : base[i] = Slash
        /\ j = Len(path) \/ path[j + 1] # Slash
        /\ \A i \in 1..j : path[i] = Slash
        /\ url = SubSeq(base, 1, k) \o <<Slash>> \o SubSeq(path, j + 1, Len(path))

\* C6 as stated: for every method, base URL and endpoint path, request()
\* sends to the base URL joined to the path by exactly one separator.
C6_UrlJoinedOnce ==
    last_call.op = "request"
    => /\ last_sent.method = last_call.args.method
       /\ JoinedOnce(ctor_base_url, last_call.args.endpoint, last_sent.url)

\* the path begins with exactly one separator
OneLeadingSlash(path) ==
    /\ Len(path) >= 1
    /\ path[1] = Slash
    /\ Len(path) = 1 \/ path[2] # Slash

\* C6 amended: for every method, every base URL and every endpoint path
\* that begins with exactly one separator, request() sends to the base URL
\* joined to the path by exactly one separator.
C6_UrlJoinedOnceForRootedPath ==
    (last_call.op = "request" /\ OneLeadingSlash(last_call.args.endpoint))
    => /\ last_sent.method = last_call.args.method
       /\ JoinedOnce(ctor_base_url, last_call.args.endpoint, last_sent.url)

C6_Witness ==
    /\ last_call.op = "request"
    /\ ctor_base_url = <<"host", Slash, Slash>>
    /\ last_call.args.endpoint = <<Slash, "path">>
    /\ last_sent.url = <<"host", Slash, "path">>

\* C7: validate accepts exactly the six names in any mix of cases and
\* returns the lower-case name, which it returns unchanged when validated
\* again; for every other name it raises and returns nothing.
C7_ValidateNormalizes ==
    last_call.op = "validate"
    => LET name == last_call.args.chars
       IN IF Accepts(name)
          THEN \E v \in {RAYDIUM, JUPITER, PUMPFUN, MOONSHOT, PUMPSWAP, AUTO} :
                   /\ Len(name) = Len(v)
                   /\ \A i \in DOMAIN v : name[i] \in {v[i], upper_char(v[i])}
                   /\ result = Return(PyName(v))
                   /\ validate(v) = result
          ELSE /\ result.kind = "raise"
               /\ result.exc = "ValueError"
               /\ result.value = PyNone

C7_Witness ==
    /\ last_call.op = "validate"
    /\ last_call.args.chars = <<"P", "U", "M", "P", "F", "U", "N">>
    /\ result = Return(PyName(PUMPFUN))

\* the endpoint table: the method and path of each public call
Endpoint(op) ==
    CASE op = "health_check" -> [method |-> "GET", path |-> <<Slash, "health">>]
      [] op = "buy" -> [method |-> "POST", path |-> Path("api", "tokens", "buy")]
      [] op = "sell" -> [method |-> "POST", path |-> Path("api", "tokens", "sell")]
      [] op = "transfer" -> [method |-> "POST", path |-> Path("api", "tokens", "transfer")]
      [] op = "create" -> [method |-> "POST", path |-> Path("api", "tokens", "create")]
      [] op = "burn" -> [method |-> "POST", path |-> Path("api", "tokens", "burn")]
      [] op = "cleaner" -> [method |-> "POST", path |-> Path("api", "tokens", "cleaner")]
      [] op = "send" -> [method |-> "POST", path |-> Path("api", "transactions", "send")]
      [] op = "calculate_pnl" -> [method |-> "POST", path |-> Path("api", "analytics", "pnl")]
      [] op = "generate_mint" ->
           [method |-> "GET", path |-> Path("api", "utilities", "generate-mint")]
      [] op = "distribute" ->
           [method |-> "POST", path |-> Path("api", "wallets", "distribute")]
      [] op = "consolidate" ->
           [method |-> "POST", path |-> Path("api", "wallets", "consolidate")]

\* the value the body holds for a parameter
WireValue(p, v) ==
    IF p = "include_timestamp" THEN PyDict([includeTimestamp |-> v]) ELSE v

\* C8: each public call sends the method and path of the endpoint table,
\* with its arguments under their wire names and nothing else; distribute
\* of sender A to recipient B, amount 10, sends exactly that body.
C8_EndpointTable ==
    (Requested /\ last_call.op # "request")
    => LET op == last_call.op
           args == last_call.args
       IN /\ last_sent.method = Endpoint(op).method
          /\ last_sent.url = base_url \o Endpoint(op).path
          /\ IF Endpoint(op).method = "GET"
             THEN last_sent.json = PyNone
             ELSE /\ last_sent.json.t = "dict"
                  /\ \A p \in RequiredParams(op) :
                         /\ WireName[p] \in BodyKeys
                         /\ last_sent.json.d[WireName[p]] = args[p]
                  /\ \A p \in OptionalParams(op) :
                         WireName[p] \in BodyKeys
                         => last_sent.json.d[WireName[p]] = WireValue(p, args[p])
                  /\ BodyKeys \subseteq
                         {WireName[p] : p \in RequiredParams(op) \cup OptionalParams(op)}
          /\ (op = "distribute" /\ args.sender = PyStr("A"))
             => last_sent.json =
                    PyDict([sender |-> PyStr("A"),
                            recipients |->
                                PyList(<<PyDict([address |-> PyStr("B"),
                                                 amount |-> PyStr("10")])>>)])

C8_Witness ==
    /\ last_call.op = "distribute"
    /\ last_call.args.sender = PyStr("A")
    /\ last_sent.method = "POST"
    /\ last_sent.url = base_url \o Path("api", "wallets", "distribute")
    /\ DOMAIN last_sent.json.d = {"sender", "recipients"}

\* an API key was configured: the constructor was given a non-empty string
Configured(key) == key # PyNone /\ key # PyStr("")

C10_FailuresAreSDKErrors ==
    (Requested /\ result.kind = "raise") => result.exc \in SDKErrorKinds

\* C11: every response with a status in 200..299 and a body that is not JSON
\* makes request() raise the generic FurySDKError: it returns no value and
\* raises neither FuryAPIError nor an error of another library.
C11_MalformedBodyRaisesGenericError ==
    (Answered /\ Status \in 200..299 /\ ~Decoded.ok)
    => (/\ result.kind = "raise"
        /\ result.exc = "FurySDKError")

\* the transport failed and no HTTP response was received
NoResponse == Requested /\ last_outcome.exc # "none" /\ last_outcome.response = PyNone

\* C12: every transport failure without an HTTP response raises a
\* FuryAPIError whose status code is None, whose message is the text of the
\* transport error and whose payload is the empty mapping; no other error
\* is raised while handling it.
C12_TransportFailureRaisesAPIError ==
    NoResponse
    => (/\ result.kind = "raise"
        /\ result.exc = "FuryAPIError"
        /\ result.status_code = PyNone
        /\ result.message = PyStr(last_outcome.str)
        /\ result.error_data = PyDict(EmptyMap))

C12_Witness ==
    /\ Requested
    /\ last_outcome.exc = "ReadTimeout"
    /\ last_outcome.response = PyNone
    /\ result.exc = "FuryAPIError"
    /\ result.status_code = PyNone
    /\ result.message = PyStr("Read timed out.")
    /\ DOMAIN result.error_data.d = {}

\* the falsy values an optional parameter can be given: None, the empty
\* string, zero and False
Falsy(v) == v \in {PyNone, PyStr(""), PyInt(0), PyBool(FALSE)}

\* C13: the body of buy, sell, calculate_pnl and consolidate holds the
\* required keys and, of the optional keys, exactly those whose parameter was
\* given a truthy value: an optional given 0, "" or False is dropped like an
\* unset one.
C13_FalsyOptionalsDropped ==
    last_call.op \in {"buy", "sell", "calculate_pnl", "consolidate"}
    => LET op == last_call.op
           args == last_call.args
       IN /\ \A p \in OptionalParams(op) :
                 WireName[p] \in BodyKeys <=> ~Falsy(args[p])
          /\ BodyKeys = {WireName[p] : p \in RequiredParams(op)}
                        \cup {WireName[p] : p \in {q \in OptionalParams(op) :
                                                      ~Falsy(args[q])}}

C13_Witness ==
    /\ last_call.op = "buy"
    /\ last_call.args.affiliate_address = PyStr("Aff")
    /\ last_call.args.affiliate_fee = PyStr("")
    /\ last_call.args.jito_tip_lamports = PyInt(0)
    /\ last_call.args.slippage_bps = PyInt(0)
    /\ BodyKeys = {"walletAddresses", "tokenAddress", "solAmount", "protocol",
                   "affiliateAddress"}

====
